---- MODULE Spec2Model ----
(***************************************************************************)
(* Model of the openssl_enc crate (src/src/lib.rs): the OpensslEnc session *)
(* with its one-shot and chunked encrypt/decrypt operations.               *)
(*                                                                         *)
(* The session is the record `self`, with the fields of struct OpensslEnc. *)
(* Every method is an operator from (self, input) to the pair              *)
(* [self |-> the session after the call, res |-> the value returned], and  *)
(* one action per method applies it.  The cipher, the key derivation and   *)
(* the random source are outside capabilities: the cipher is modelled as a *)
(* CBC chaining with PKCS#7 padding over a keyed, invertible byte-wise     *)
(* block transformation, the derivation as a keyed checksum stream.        *)
(***************************************************************************)
EXTENDS Integers, Sequences, FiniteSets, TLC

(***************************************************************************)
(* Bounds of the model.                                                    *)
(***************************************************************************)
\* a stream carries at most MaxBlocks full blocks and one more byte
MaxBlocks == 1
\* finalize calls per direction
MaxFinalizes == 2
\* chunk calls per direction between two finalizes
MaxChunks == 2

(***************************************************************************)
(* Bytes and byte strings.                                                 *)
(***************************************************************************)
ByteMod == 256

HeaderLen == 16

SaltLen == 8

RECURSIVE Sum(_)
Sum(s) == IF s = <<>> THEN 0 ELSE Head(s) + Sum(Tail(s))

\* rust slice s[from..], 0-based; defined only for from <= len
SliceFrom(s, from) == SubSeq(s, from + 1, Len(s))

\* rust slice s[..to], 0-based
SliceTo(s, to) == SubSeq(s, 1, to)

Repeat(b, n) == [i \in 1..n |-> b]

\* "Salted__".as_bytes()
SaltedTag == <<83, 97, 108, 116, 101, 100, 95, 95>>

(***************************************************************************)
(* Option and Result values.                                               *)
(***************************************************************************)
None == <<>>

Some(x) == <<x>>

IsSome(o) == Len(o) = 1

Unwrap(o) == o[1]

Ok(v) == [kind |-> "Ok", out |-> v, err |-> ""]

Err(e) == [kind |-> "Err", out |-> <<>>, err |-> e]

\* an index out of range: the thread panics, the call returns nothing
Panic == [kind |-> "Panic", out |-> <<>>, err |-> "slice index out of range"]

NoEncrypter == "could not get encrypter"

NoDecrypter == "could not get decrypter"

NoIvLength == "failed to get iv length"

NoIterationCount == "failed to get iteration_count"

RandFailure == "rand_bytes failed"

WrongFinalBlockLength == "wrong final block length"

BadDecrypt == "bad decrypt"

(***************************************************************************)
(* The cipher capability (openssl::symm).                                  *)
(***************************************************************************)
\* Cipher: key_len(), iv_len() (an Option), block_size()
des_cbc == [name |-> "des_cbc", key_len |-> 8, iv_len |-> Some(8), block_size |-> 8]

aes_128_ecb == [name |-> "aes_128_ecb", key_len |-> 16, iv_len |-> None, block_size |-> 16]

aes_128_cbc == [name |-> "aes_128_cbc", key_len |-> 16, iv_len |-> Some(16), block_size |-> 16]

aes_256_cbc == [name |-> "aes_256_cbc", key_len |-> 32, iv_len |-> Some(16), block_size |-> 16]

\* the keyed block transformation and its inverse, byte by byte
BlockEnc(key, x) ==
    [j \in 1..Len(x) |-> (x[j] + key[((j - 1) % Len(key)) + 1] + j) % ByteMod]

BlockDec(key, y) ==
    [j \in 1..Len(y) |-> (y[j] - key[((j - 1) % Len(key)) + 1] - j) % ByteMod]

\* the chaining operation of CBC and its inverse (a group operation on bytes)
Mix(a, b) == [j \in 1..Len(a) |-> (a[j] + b[j]) % ByteMod]

Unmix(a, b) == [j \in 1..Len(a) |-> (a[j] - b[j]) % ByteMod]

\* CBC over whole blocks: [out, prev], prev the last ciphertext block
RECURSIVE CbcEncryptBlocks(_, _, _, _)
CbcEncryptBlocks(key, prev, data, bs) ==
    IF Len(data) < bs THEN [out |-> <<>>, prev |-> prev]
    ELSE LET c == BlockEnc(key, Mix(SubSeq(data, 1, bs), prev))
             rest == CbcEncryptBlocks(key, c, SubSeq(data, bs + 1, Len(data)), bs)
         IN  [out |-> c \o rest.out, prev |-> rest.prev]

RECURSIVE CbcDecryptBlocks(_, _, _, _)
CbcDecryptBlocks(key, prev, data, bs) ==
    IF Len(data) < bs THEN [out |-> <<>>, prev |-> prev]
    ELSE LET c == SubSeq(data, 1, bs)
             p == Unmix(BlockDec(key, c), prev)
             rest == CbcDecryptBlocks(key, c, SubSeq(data, bs + 1, Len(data)), bs)
         IN  [out |-> p \o rest.out, prev |-> rest.prev]

\* PKCS#7
Pad(data, bs) ==
    LET n == bs - (Len(data) % bs) IN data \o Repeat(n, n)

PadOk(block, bs) ==
    LET n == block[bs]
    IN  /\ n >= 1
        /\ n <= bs
        /\ \A j \in (bs - n + 1)..bs : block[j] = n

\* openssl::symm::encrypt(cipher, key, iv, data)
SymmEncrypt(cipher, key, iv, data) ==
    Ok(CbcEncryptBlocks(key, iv, Pad(data, cipher.block_size), cipher.block_size).out)

\* openssl::symm::decrypt(cipher, key, iv, data)
SymmDecrypt(cipher, key, iv, data) ==
    LET bs == cipher.block_size
        plain == CbcDecryptBlocks(key, iv, data, bs).out
        last == SubSeq(plain, Len(plain) - bs + 1, Len(plain))
    IN  IF Len(data) = 0 \/ Len(data) % bs # 0 THEN Err(WrongFinalBlockLength)
        ELSE IF ~PadOk(last, bs) THEN Err(BadDecrypt)
        ELSE Ok(SubSeq(plain, 1, Len(plain) - last[bs]))

\* Crypter::new(cipher, mode, key, iv): the running context of one stream.
\* buf holds the input bytes not yet processed, prev the chaining block.
CrypterNew(cipher, mode, key, iv) ==
    [mode |-> mode, key |-> key, prev |-> iv, buf |-> <<>>,
     bs |-> cipher.block_size, finalized |-> FALSE]

\* Crypter::update(input, output): [ctx, out].  Encryption emits every
\* completed block; decryption holds the last completed block back, since
\* it may be the padding block.
CrypterUpdate(ctx, input) ==
    LET all == ctx.buf \o input
        bs == ctx.bs
        full == Len(all) \div bs
        n == IF ctx.mode = "Decrypt" /\ full > 0 /\ Len(all) % bs = 0
             THEN full - 1 ELSE full
        head == SubSeq(all, 1, n * bs)
        r == IF ctx.mode = "Encrypt"
             THEN CbcEncryptBlocks(ctx.key, ctx.prev, head, bs)
             ELSE CbcDecryptBlocks(ctx.key, ctx.prev, head, bs)
    IN  [ctx |-> [ctx EXCEPT !.prev = r.prev,
                             !.buf = SubSeq(all, n * bs + 1, Len(all))],
         out |-> r.out]

\* Crypter::finalize(output) on a context not finalized before: [ctx, res]
CrypterFinalizeFirst(ctx) ==
    LET bs == ctx.bs
        done == [ctx EXCEPT !.finalized = TRUE]
    IN  IF ctx.mode = "Encrypt"
        THEN LET r == CbcEncryptBlocks(ctx.key, ctx.prev, Pad(ctx.buf, bs), bs)
             IN  [ctx |-> [done EXCEPT !.prev = r.prev], res |-> Ok(r.out)]
        ELSE IF Len(ctx.buf) # bs
             THEN [ctx |-> done, res |-> Err(WrongFinalBlockLength)]
             ELSE LET p == CbcDecryptBlocks(ctx.key, ctx.prev, ctx.buf, bs).out
                  IN  IF PadOk(p, bs)
                      THEN [ctx |-> done, res |-> Ok(SubSeq(p, 1, bs - p[bs]))]
                      ELSE [ctx |-> done, res |-> Err(BadDecrypt)]

\* Crypter::finalize on a context that was finalized already: the library
\* gives no contract.  It fails, or works once more on the state the first
\* finalize left (with the buffered bytes kept, or with them cleared).
CrypterFinalizeAgain(ctx) ==
    { [ctx |-> ctx, res |-> Err(WrongFinalBlockLength)],
      [ctx |-> ctx, res |-> CrypterFinalizeFirst(ctx).res],
      [ctx |-> ctx, res |-> CrypterFinalizeFirst([ctx EXCEPT !.buf = <<>>]).res] }

(***************************************************************************)
(* The key derivation capability (ring::pbkdf2::derive) and the random     *)
(* source (GetRandomBytes).                                                *)
(***************************************************************************)
\* pbkdf2::derive(alg, iterations, salt, password, out) with Len(out) = n
Pbkdf2Derive(iterations, salt, password, n) ==
    [i \in 1..n |->
        (Sum(password) + 3 * Sum(salt) + 7 * iterations + 11 * i
         + salt[((i - 1) % Len(salt)) + 1] * i) % ByteMod]

\* the default the source names in unwrap_or
DefaultIterationCount == 10000

UnwrapOr(o, d) == IF IsSome(o) THEN Unwrap(o) ELSE d

NonZeroU32New(n) == IF n = 0 THEN None ELSE Some(n)

(***************************************************************************)
(* struct OpensslEnc and its methods.  Each method maps the session and    *)
(* its input to [self |-> session afterwards, res |-> value returned].     *)
(***************************************************************************)
\* Crypter::finalize(output): the set of possible [ctx, res]
CrypterFinalize(ctx) ==
    IF ctx.finalized THEN CrypterFinalizeAgain(ctx) ELSE { CrypterFinalizeFirst(ctx) }

\* Iterations with the default put in the place of a count of 0
Iterations_DefaultForZero(iteration_count) ==
    NonZeroU32New(IF iteration_count = 0 THEN DefaultIterationCount
                  ELSE iteration_count)

\* NonZeroU32::new(Some(iteration_count).unwrap_or(10000))
Iterations(iteration_count) ==
    NonZeroU32New(UnwrapOr(Some(iteration_count), DefaultIterationCount))

\* new, key: pbkdf2_key_iv[0..key_length] cut at the IV length instead
KeyOf_IvLength(pbkdf2_key_iv, key_length) ==
    SubSeq(pbkdf2_key_iv, 1, Len(pbkdf2_key_iv) - key_length)

\* new, key: pbkdf2_key_iv[0..key_length]
KeyOf(pbkdf2_key_iv, key_length) == SubSeq(pbkdf2_key_iv, 1, key_length)

\* new, iv: pbkdf2_key_iv[key_length..key_and_iv_length]
IvOf(pbkdf2_key_iv, key_length) ==
    SubSeq(pbkdf2_key_iv, key_length + 1, Len(pbkdf2_key_iv))

\* what new returns without a session.  rand_requests and rand_bytes: the
\* requests made to the random source and the bytes asked of it
NewFails(res, rand_requests) ==
    [self |-> None, res |-> res, rand_requests |-> rand_requests,
     rand_bytes |-> rand_requests * SaltLen]

\* new from get_random_bytes(8) on; rand is what that call returns
NewFromSalt(password, cipher, iterations, rand) ==
    IF rand.kind # "Ok" THEN NewFails(rand, 1)
    ELSE LET iv_length == Unwrap(cipher.iv_len)
             key_length == cipher.key_len
             key_and_iv_length == iv_length + key_length
             salt == rand.out
             pbkdf2_key_iv == Pbkdf2Derive(iterations, salt, password,
                                           key_and_iv_length)
         IN  [self |-> Some([key |-> KeyOf(pbkdf2_key_iv, key_length),
                             iv |-> IvOf(pbkdf2_key_iv, key_length),
                             magic_header |-> SaltedTag \o salt,
                             cipher |-> cipher,
                             block_size |-> cipher.block_size,
                             encrypter |-> None,
                             decrypter |-> None,
                             add_magic_header |-> TRUE,
                             remove_magic_header |-> TRUE]),
              res |-> Ok(<<>>),
              rand_requests |-> 1,
              rand_bytes |-> SaltLen]

\* new asking for the salt before it looks at its arguments
new_SaltFirst(password, cipher, iteration_count, rand) ==
    IF rand.kind # "Ok" THEN NewFails(rand, 1)
    ELSE IF ~IsSome(cipher.iv_len) THEN NewFails(Err(NoIvLength), 1)
    ELSE IF ~IsSome(Iterations(iteration_count))
    THEN NewFails(Err(NoIterationCount), 1)
    ELSE NewFromSalt(password, cipher, Unwrap(Iterations(iteration_count)), rand)

\* OpensslEnc::new; rand is what get_random_bytes(8) returns if it is asked.
\* [self |-> Option<OpensslEnc>, res, rand_requests, rand_bytes]
new(password, cipher, iteration_count, rand) ==
    IF ~IsSome(cipher.iv_len) THEN NewFails(Err(NoIvLength), 0)
    ELSE IF ~IsSome(Iterations(iteration_count))
    THEN NewFails(Err(NoIterationCount), 0)
    ELSE NewFromSalt(password, cipher, Unwrap(Iterations(iteration_count)), rand)

\* encrypt re-arming the header flag of the encrypt stream
encrypt_RearmsHeader(self, data) ==
    LET ciphertext == SymmEncrypt(self.cipher, self.key, self.iv, data)
    IN  [self |-> [self EXCEPT !.add_magic_header = TRUE],
         res |-> Ok(self.magic_header \o ciphertext.out)]

\* OpensslEnc::encrypt
encrypt(self, data) ==
    LET ciphertext == SymmEncrypt(self.cipher, self.key, self.iv, data)
    IN  IF ciphertext.kind # "Ok" THEN [self |-> self, res |-> ciphertext]
        ELSE [self |-> self, res |-> Ok(self.magic_header \o ciphertext.out)]

\* EncrypterFor with the condition lost: a new context for every chunk
EncrypterFor_EveryChunk(self) ==
    [self EXCEPT !.encrypter =
         Some(CrypterNew(self.cipher, "Encrypt", self.key, self.iv))]

\* encrypt_chunk, the lazy creation of the context: if self.add_magic_header
EncrypterFor(self) ==
    IF self.add_magic_header
    THEN [self EXCEPT !.encrypter =
              Some(CrypterNew(self.cipher, "Encrypt", self.key, self.iv))]
    ELSE self

\* EmitChunk with the flag never cleared: a header before every output
EmitChunk_HeaderAlways(self, ciphertext) ==
    [self |-> self, res |-> Ok(self.magic_header \o ciphertext)]

\* encrypt_chunk, the return: the header goes before the first output
EmitChunk(self, ciphertext) ==
    IF self.add_magic_header
    THEN [self |-> [self EXCEPT !.add_magic_header = FALSE],
          res |-> Ok(self.magic_header \o ciphertext)]
    ELSE [self |-> self, res |-> Ok(ciphertext)]

\* OpensslEnc::encrypt_chunk
encrypt_chunk(self, chunk) ==
    LET s1 == EncrypterFor(self)
    IN  IF ~IsSome(s1.encrypter) THEN [self |-> s1, res |-> Err(NoEncrypter)]
        ELSE LET u == CrypterUpdate(Unwrap(s1.encrypter), chunk)
             IN  EmitChunk([s1 EXCEPT !.encrypter = Some(u.ctx)], u.out)

\* encrypter_finalize with the header flag not re-armed
encrypter_finalize_NoRearm(self) ==
    IF ~IsSome(self.encrypter) THEN { [self |-> self, res |-> Err(NoEncrypter)] }
    ELSE { [self |-> [self EXCEPT !.encrypter = Some(f.ctx)], res |-> f.res] :
             f \in CrypterFinalize(Unwrap(self.encrypter)) }

\* encrypter_finalize leaving the last cipher block in the place of the IV
encrypter_finalize_ChainsIv(self) ==
    LET s1 == [self EXCEPT !.add_magic_header = TRUE]
    IN  IF ~IsSome(s1.encrypter) THEN { [self |-> s1, res |-> Err(NoEncrypter)] }
        ELSE { [self |-> [s1 EXCEPT !.encrypter = Some(f.ctx), !.iv = f.ctx.prev],
                res |-> f.res] :
                 f \in CrypterFinalize(Unwrap(s1.encrypter)) }

\* OpensslEnc::encrypter_finalize: the set of possible outcomes
encrypter_finalize(self) ==
    LET s1 == [self EXCEPT !.add_magic_header = TRUE]
    IN  IF ~IsSome(s1.encrypter) THEN { [self |-> s1, res |-> Err(NoEncrypter)] }
        ELSE { [self |-> [s1 EXCEPT !.encrypter = Some(f.ctx)], res |-> f.res] :
                 f \in CrypterFinalize(Unwrap(s1.encrypter)) }

\* decrypt with the header left in place
decrypt_KeepsHeader(self, data) ==
    [self |-> self, res |-> SymmDecrypt(self.cipher, self.key, self.iv, data)]

\* OpensslEnc::decrypt
decrypt(self, data) ==
    IF Len(data) < HeaderLen THEN [self |-> self, res |-> Panic]
    ELSE [self |-> self,
          res |-> SymmDecrypt(self.cipher, self.key, self.iv, SliceFrom(data, HeaderLen))]

\* DecrypterFor clearing the flag and creating no context
DecrypterFor_FlagOnly(self) == [self EXCEPT !.remove_magic_header = FALSE]

\* decrypt_chunk, the lazy creation of the context: if self.remove_magic_header
DecrypterFor(self) ==
    IF self.remove_magic_header
    THEN [self EXCEPT !.decrypter =
              Some(CrypterNew(self.cipher, "Decrypt", self.key, self.iv)),
                      !.remove_magic_header = FALSE]
    ELSE self

\* decrypt_chunk, reformatted_data: Some(the bytes given to update), or None
\* where &chunk[16..] is out of range
ReformattedData(self, chunk) ==
    IF self.remove_magic_header
    THEN IF Len(chunk) < HeaderLen THEN None ELSE Some(SliceFrom(chunk, HeaderLen))
    ELSE Some(chunk)

\* OpensslEnc::decrypt_chunk
decrypt_chunk(self, chunk) ==
    LET s1 == DecrypterFor(self)
        reformatted_data == ReformattedData(self, chunk)
    IN  IF ~IsSome(reformatted_data) THEN [self |-> s1, res |-> Panic]
        ELSE IF ~IsSome(s1.decrypter) THEN [self |-> s1, res |-> Err(NoDecrypter)]
        ELSE LET u == CrypterUpdate(Unwrap(s1.decrypter), Unwrap(reformatted_data))
             IN  [self |-> [s1 EXCEPT !.decrypter = Some(u.ctx)], res |-> Ok(u.out)]

\* decrypter_finalize re-arming the flag of the other direction as well
decrypter_finalize_BothFlags(self) ==
    LET s1 == [self EXCEPT !.remove_magic_header = TRUE, !.add_magic_header = TRUE]
    IN  IF ~IsSome(s1.decrypter) THEN { [self |-> s1, res |-> Err(NoDecrypter)] }
        ELSE { [self |-> [s1 EXCEPT !.decrypter = Some(f.ctx)], res |-> f.res] :
                 f \in CrypterFinalize(Unwrap(s1.decrypter)) }

\* decrypter_finalize re-arming the flag only where the context accepts
decrypter_finalize_RearmOnSuccess(self) ==
    IF ~IsSome(self.decrypter) THEN { [self |-> self, res |-> Err(NoDecrypter)] }
    ELSE { [self |-> [self EXCEPT !.decrypter = Some(f.ctx),
                                  !.remove_magic_header = @ \/ f.res.kind = "Ok"],
            res |-> f.res] :
             f \in CrypterFinalize(Unwrap(self.decrypter)) }

\* OpensslEnc::decrypter_finalize: the set of possible outcomes
decrypter_finalize(self) ==
    LET s1 == [self EXCEPT !.remove_magic_header = TRUE]
    IN  IF ~IsSome(s1.decrypter) THEN { [self |-> s1, res |-> Err(NoDecrypter)] }
        ELSE { [self |-> [s1 EXCEPT !.decrypter = Some(f.ctx)], res |-> f.res] :
                 f \in CrypterFinalize(Unwrap(s1.decrypter)) }

(***************************************************************************)
(* The caller: what it constructs, encrypts and decrypts.  Each input set  *)
(* comes in a wide form, used where one direction is exercised alone, and  *)
(* a narrow form, used where the two directions are interleaved.           *)
(***************************************************************************)
Passwords == { <<112, 119>> }

Salts == { <<83, 97, 35, 17, 35, 86, 116, 18>>, <<1, 2, 3, 4, 5, 6, 7, 8>> }

Ciphers(wide) == IF wide THEN { des_cbc, aes_128_ecb } ELSE { des_cbc }

\* the 128-bit and the 256-bit variant of one mode
SizedCiphers == { aes_128_cbc, aes_256_cbc }

IterationCounts(wide) == IF wide THEN { 0, 1, DefaultIterationCount } ELSE { 1 }

\* what the random source may answer to get_random_bytes(8)
RandOutcomes(wide) ==
    IF wide THEN { Ok(salt) : salt \in Salts } \cup { Err(RandFailure) }
    ELSE { Ok(<<1, 2, 3, 4, 5, 6, 7, 8>>) }

MaxPlainLen(bs) == MaxBlocks * bs + 1

\* the plaintext the caller streams in its k-th stream
Msg(k, bs) == [i \in 1..MaxPlainLen(bs) |-> (17 * i + 5 * k + 3) % ByteMod]

\* chunk sizes: empty, below, at and above the block size
ChunkLens(bs, wide) == IF wide THEN { 0, 1, bs - 1, bs, bs + 1 } ELSE { 1, bs }

OneShotPlains(bs, wide) ==
    { SliceTo(Msg(0, bs), n) : n \in (IF wide THEN { 0, 1, bs, bs + 1 } ELSE { 1 }) }

\* a byte string with one byte changed
Flip(s, i) == [s EXCEPT ![i] = (s[i] + 1) % ByteMod]

Variants(wide) == IF wide THEN { "good", "badtag", "badpad" } ELSE { "good" }

Tamper(v, c) ==
    IF v = "badtag" THEN Flip(c, 1)
    ELSE IF v = "badpad" THEN Flip(c, Len(c))
    ELSE c

\* the header-prefixed byte strings the caller may stream into decrypt_chunk
DecSources(self, wide) ==
    { Tamper(v, encrypt(self, SliceTo(Msg(0, self.block_size), n)).res.out) :
        v \in Variants(wide),
        n \in (IF wide THEN { 1, self.block_size } ELSE { 1 }) }

\* sizes of the chunks cut from such a string
DecChunkLens(bs, wide) ==
    IF wide THEN { 0, 3, HeaderLen, HeaderLen + 1, bs }
    ELSE { 3, HeaderLen + 1, bs - 1 }

(***************************************************************************)
(* State.                                                                  *)
(***************************************************************************)
VARIABLES
    session,     \* Option<OpensslEnc>: None before new has succeeded
    last,        \* the last call: its name, argument and returned value
    enc,         \* the caller's record of the encrypt stream
    dec,         \* the caller's record of the decrypt stream
    encOnly,     \* the session had only the encrypt stream calls been made
    decOnly,     \* the session had only the decrypt stream calls been made
    newArgs,     \* the arguments of new
    rand_calls,  \* requests made to the random source
    rand_bytes   \* bytes asked of the random source

vars ==
    <<session, last, enc, dec, encOnly, decOnly, newArgs, rand_calls, rand_bytes>>

\* a stream as the caller sees it: the bytes passed in and the bytes got
\* back since the stream began; done: finalize was the last call on it;
\* ended: how that finalize returned, "Ok" or the error
NoStream ==
    [inp |-> <<>>, out |-> <<>>, src |-> <<>>, chunks |-> 0,
     finalizes |-> 0, done |-> TRUE, failed |-> FALSE, ended |-> "none"]

\* chunk calls made since construction or since the last finalize
Pending(g) == IF g.done THEN 0 ELSE g.chunks

AfterChunk(g, chunk, res, src) ==
    IF g.done
    THEN [g EXCEPT !.inp = chunk, !.out = res.out, !.src = src, !.chunks = 1,
                   !.done = FALSE, !.failed = (res.kind # "Ok"),
                   !.ended = "none"]
    ELSE [g EXCEPT !.inp = @ \o chunk, !.out = @ \o res.out, !.chunks = @ + 1,
                   !.failed = @ \/ (res.kind # "Ok")]

Outcome(res) == IF res.kind = "Err" THEN res.err ELSE res.kind

AfterFinalize(g, res) ==
    IF g.done
    THEN [g EXCEPT !.inp = <<>>, !.out = res.out, !.src = <<>>,
                   !.chunks = 0, !.finalizes = @ + 1, !.failed = FALSE,
                   !.ended = Outcome(res)]
    ELSE [g EXCEPT !.out = @ \o res.out, !.finalizes = @ + 1, !.done = TRUE,
                   !.ended = Outcome(res)]

\* a call: idle and n are the direction's header flag and the chunks pending
\* before it; from and plain tell where the argument of decrypt came from;
\* from tells of a chunk call how the finalize just before it returned
Call(op, arg, res, idle, n, from, plain) ==
    [op |-> op, arg |-> arg, res |-> res, idle |-> idle, n |-> n,
     from |-> from, plain |-> plain]

\* the outcome of the same call on the one-direction session: the one that
\* returns the same value if there is one
Same(outcomes, res) ==
    { o \in outcomes : o.res = res \/ \A t \in outcomes : t.res # res }

Init ==
    /\ session = None
    /\ last = Call("none", <<>>, Ok(<<>>), TRUE, 0, "", <<>>)
    /\ enc = NoStream
    /\ dec = NoStream
    /\ encOnly = [self |-> None, res |-> Ok(<<>>)]
    /\ decOnly = [self |-> None, res |-> Ok(<<>>)]
    /\ newArgs = [password |-> <<>>, cipher |-> des_cbc, iteration_count |-> 0,
                  rand |-> Err(RandFailure)]
    /\ rand_calls = 0
    /\ rand_bytes = 0

NewOf(ciphers, wide) ==
    /\ last.op = "none"
    /\ \E password \in Passwords, cipher \in ciphers,
          iteration_count \in IterationCounts(wide), rand \in RandOutcomes(wide) :
          LET r == new(password, cipher, iteration_count, rand)
          IN  /\ session' = r.self
              /\ last' = Call("new", <<>>, r.res, TRUE, 0, "", <<>>)
              /\ encOnly' = [self |-> r.self, res |-> r.res]
              /\ decOnly' = [self |-> r.self, res |-> r.res]
              /\ newArgs' = [password |-> password, cipher |-> cipher,
                             iteration_count |-> iteration_count, rand |-> rand]
              /\ rand_calls' = rand_calls + r.rand_requests
              /\ rand_bytes' = rand_bytes + r.rand_bytes
    /\ UNCHANGED <<enc, dec>>

New(wide) == NewOf(Ciphers(wide), wide)

\* construction with the 128-bit or the 256-bit variant of AES-CBC
NewSized == NewOf(SizedCiphers, FALSE)

Encrypt(wide) ==
    /\ IsSome(session)
    /\ LET self == Unwrap(session)
       IN  \E data \in OneShotPlains(self.block_size, wide) :
              LET r == encrypt(self, data)
              IN  /\ session' = Some(r.self)
                  /\ last' = Call("encrypt", data, r.res, self.add_magic_header,
                                  Pending(enc), "", <<>>)
    /\ UNCHANGED <<enc, dec, encOnly, decOnly, newArgs, rand_calls, rand_bytes>>

EncryptChunk(wide) ==
    /\ IsSome(session)
    /\ Pending(enc) < MaxChunks
    /\ LET self == Unwrap(session)
           bs == self.block_size
           fed == IF enc.done THEN 0 ELSE Len(enc.inp)
       IN  \E n \in ChunkLens(bs, wide) :
              /\ fed + n <= MaxPlainLen(bs)
              /\ LET chunk == SubSeq(Msg(enc.finalizes, bs), fed + 1, fed + n)
                     r == encrypt_chunk(self, chunk)
                     o == encrypt_chunk(Unwrap(encOnly.self), chunk)
                 IN  /\ session' = Some(r.self)
                     /\ last' = Call("encrypt_chunk", chunk, r.res,
                                     self.add_magic_header, Pending(enc),
                                     enc.ended, <<>>)
                     /\ enc' = AfterChunk(enc, chunk, r.res, <<>>)
                     /\ encOnly' = [self |-> Some(o.self), res |-> o.res]
    /\ UNCHANGED <<dec, decOnly, newArgs, rand_calls, rand_bytes>>

EncrypterFinalize ==
    /\ IsSome(session)
    /\ enc.finalizes < MaxFinalizes
    /\ LET self == Unwrap(session)
       IN  \E r \in encrypter_finalize(self) :
           \E o \in Same(encrypter_finalize(Unwrap(encOnly.self)), r.res) :
              /\ session' = Some(r.self)
              /\ last' = Call("encrypter_finalize", <<>>, r.res,
                              self.add_magic_header, Pending(enc), "", <<>>)
              /\ enc' = AfterFinalize(enc, r.res)
              /\ encOnly' = [self |-> Some(o.self), res |-> o.res]
    /\ UNCHANGED <<dec, decOnly, newArgs, rand_calls, rand_bytes>>

\* what the caller may pass to decrypt: the output of the encrypt call or
\* of the encrypt stream just made, or bytes from elsewhere
DecryptInputs(self, wide) ==
    { [data |-> c, from |-> "other", plain |-> <<>>] : c \in DecSources(self, FALSE) }
    \cup { [data |-> SliceTo(c, n), from |-> "other", plain |-> <<>>] :
             c \in DecSources(self, FALSE),
             n \in (IF wide THEN { HeaderLen - 1 } ELSE {}) }
    \cup ( IF last.op = "encrypt" /\ last.res.kind = "Ok"
           THEN { [data |-> last.res.out, from |-> "encrypt", plain |-> last.arg] } ELSE {} )
    \cup ( IF enc.done /\ enc.chunks >= 1 /\ last.op = "encrypter_finalize"
              /\ last.res.kind = "Ok"
           THEN { [data |-> enc.out, from |-> "chunks", plain |-> enc.inp] } ELSE {} )

Decrypt(wide) ==
    /\ IsSome(session)
    /\ LET self == Unwrap(session)
       IN  \E i \in DecryptInputs(self, wide) :
              LET r == decrypt(self, i.data)
              IN  /\ session' = Some(r.self)
                  /\ last' = Call("decrypt", i.data, r.res,
                                  self.remove_magic_header, Pending(dec), i.from, i.plain)
    /\ UNCHANGED <<enc, dec, encOnly, decOnly, newArgs, rand_calls, rand_bytes>>

DecryptChunk(wide) ==
    /\ IsSome(session)
    /\ Pending(dec) < MaxChunks
    /\ LET self == Unwrap(session)
           bs == self.block_size
           fed == IF dec.done THEN 0 ELSE Len(dec.inp)
       IN  \E src \in (IF dec.done THEN DecSources(self, wide) ELSE { dec.src }),
              n \in DecChunkLens(bs, wide) :
              /\ fed + n <= Len(src)
              /\ LET chunk == SubSeq(src, fed + 1, fed + n)
                     r == decrypt_chunk(self, chunk)
                     o == decrypt_chunk(Unwrap(decOnly.self), chunk)
                 IN  /\ session' = Some(r.self)
                     /\ last' = Call("decrypt_chunk", chunk, r.res,
                                     self.remove_magic_header, Pending(dec),
                                     dec.ended, <<>>)
                     /\ dec' = AfterChunk(dec, chunk, r.res, src)
                     /\ decOnly' = [self |-> Some(o.self), res |-> o.res]
    /\ UNCHANGED <<enc, encOnly, newArgs, rand_calls, rand_bytes>>

DecrypterFinalize ==
    /\ IsSome(session)
    /\ dec.finalizes < MaxFinalizes
    /\ LET self == Unwrap(session)
       IN  \E r \in decrypter_finalize(self) :
           \E o \in Same(decrypter_finalize(Unwrap(decOnly.self)), r.res) :
              /\ session' = Some(r.self)
              /\ last' = Call("decrypter_finalize", <<>>, r.res,
                              self.remove_magic_header, Pending(dec), "", <<>>)
              /\ dec' = AfterFinalize(dec, r.res)
              /\ decOnly' = [self |-> Some(o.self), res |-> o.res]
    /\ UNCHANGED <<enc, encOnly, newArgs, rand_calls, rand_bytes>>

\* the streams of the two directions interleaved, on the narrow inputs
Next ==
    \/ New(FALSE)
    \/ EncryptChunk(FALSE)
    \/ EncrypterFinalize
    \/ DecryptChunk(FALSE)
    \/ DecrypterFinalize

Spec == Init /\ [][Next]_vars

\* construction and the encrypt direction, on the wide inputs
NextEnc ==
    \/ New(TRUE)
    \/ Encrypt(TRUE)
    \/ EncryptChunk(TRUE)
    \/ EncrypterFinalize
    \/ Decrypt(TRUE)

SpecEnc == Init /\ [][NextEnc]_vars

\* construction and the decrypt direction, on the wide inputs
NextDec ==
    \/ New(TRUE)
    \/ Decrypt(TRUE)
    \/ DecryptChunk(TRUE)
    \/ DecrypterFinalize

SpecDec == Init /\ [][NextDec]_vars

\* every method, one-shot calls among the streams, on the narrow inputs
NextAll ==
    \/ New(FALSE)
    \/ Encrypt(FALSE)
    \/ EncryptChunk(FALSE)
    \/ enc.finalizes < MaxFinalizes - 1 /\ EncrypterFinalize
    \/ Decrypt(FALSE)
    \/ DecryptChunk(FALSE)
    \/ dec.finalizes < MaxFinalizes - 1 /\ DecrypterFinalize

SpecAll == Init /\ [][NextAll]_vars

\* the encrypt direction under the two key sizes of AES-CBC
NextSized ==
    \/ NewSized
    \/ Encrypt(TRUE)
    \/ EncryptChunk(FALSE)
    \/ EncrypterFinalize

SpecSized == Init /\ [][NextSized]_vars

(***************************************************************************)
(* Properties.                                                             *)
(***************************************************************************)
EncOps == { "encrypt_chunk", "encrypter_finalize" }

DecOps == { "decrypt_chunk", "decrypter_finalize" }

\* the 16 bytes "Salted__" ++ salt, salt being what the random source gave new
ExpectedHeader == SaltedTag \o newArgs.rand.out

\* bytes the cipher emits between two amounts of plaintext taken in
Emitted(bs, before, after) == bs * ((after \div bs) - (before \div bs))

\* C1: when encrypter_finalize ends a stream of n >= 1 chunks begun after
\* construction or after the previous finalize, every call of the stream has
\* succeeded and the concatenation of the chunk outputs and the finalize
\* output is byte for byte what encrypt returns for the concatenated chunks.
C1_ChunkedEncryptEqualsOneShot ==
    (IsSome(session) /\ last.op = "encrypter_finalize" /\ last.n >= 1) =>
        /\ ~enc.failed
        /\ last.res.kind = "Ok"
        /\ encrypt(Unwrap(session), enc.inp).res = Ok(enc.out)

\* a stream of two chunks or more that crosses a block boundary has ended
C1_Witness ==
    /\ IsSome(session)
    /\ last.op = "encrypter_finalize"
    /\ last.n >= 2
    /\ Len(enc.inp) > Unwrap(session).block_size
    /\ encrypt(Unwrap(session), enc.inp).res = Ok(enc.out)

\* C3: the header is "Salted__" ++ the salt the key and IV were derived
\* with; the output of encrypt begins with it; in a stream it is prepended
\* to the first chunk output and to that one only, so every later chunk
\* output and the finalize output hold cipher output alone, and the
\* concatenated stream begins with the header.
C3_HeaderOncePerStream ==
    IsSome(session) =>
        LET self == Unwrap(session)
            bs == self.block_size
            fed == Len(enc.inp)
        IN  /\ self.magic_header = ExpectedHeader
            /\ Len(self.magic_header) = HeaderLen
            /\ Len(newArgs.rand.out) = SaltLen
            /\ self.key \o self.iv =
                   Pbkdf2Derive(newArgs.iteration_count, newArgs.rand.out,
                                newArgs.password, Len(self.key) + Len(self.iv))
            /\ last.op = "encrypt" =>
                   /\ SliceTo(last.res.out, HeaderLen) = ExpectedHeader
                   /\ Len(last.res.out) = HeaderLen + Len(Pad(last.arg, bs))
            /\ last.op = "encrypt_chunk" =>
                   /\ last.res.kind = "Ok"
                   /\ Len(last.res.out) =
                          (IF last.n = 0 THEN HeaderLen ELSE 0)
                          + Emitted(bs, fed - Len(last.arg), fed)
                   /\ last.n = 0 => SliceTo(last.res.out, HeaderLen) = ExpectedHeader
            /\ (last.op = "encrypter_finalize" /\ last.n >= 1) =>
                   /\ last.res.kind = "Ok"
                   /\ Len(last.res.out) = bs
            /\ enc.chunks >= 1 =>
                   /\ SliceTo(enc.out, HeaderLen) = ExpectedHeader
                   /\ Len(enc.out) = HeaderLen + Emitted(bs, 0, fed)
                                     + (IF enc.done THEN bs ELSE 0)

\* a later chunk of a stream has just emitted a block, without a header
C3_Witness ==
    /\ IsSome(session)
    /\ last.op = "encrypt_chunk"
    /\ last.n >= 1
    /\ Len(last.res.out) = Unwrap(session).block_size
    /\ SliceTo(enc.out, HeaderLen) = ExpectedHeader

\* C4: decrypt applied to what encrypt returned for P, or to the
\* concatenated outputs of an encrypt stream that carried P, returns P.
C4_RoundTrip ==
    (last.op = "decrypt" /\ last.from \in { "encrypt", "chunks" }) =>
        last.res = Ok(last.plain)

\* the output of a stream of several chunks has been decrypted
C4_Witness ==
    /\ last.op = "decrypt"
    /\ last.from = "chunks"
    /\ enc.chunks >= 2
    /\ Len(last.plain) > 1
    /\ last.res = Ok(last.plain)

\* the output of encrypt has been decrypted
C4_WitnessOneShot ==
    /\ last.op = "decrypt"
    /\ last.from = "encrypt"
    /\ Len(last.plain) > 1
    /\ last.res = Ok(last.plain)

\* C2: when decrypter_finalize ends a stream of n >= 1 chunks that carried a
\* header-prefixed byte string C (16 bytes or more), cut in any way, every
\* call of the stream has returned and the stream ends as decrypt(C) does:
\* both fail, or both succeed and the concatenated outputs are what decrypt
\* returns.
C2_ChunkedDecryptEqualsOneShot ==
    (IsSome(session) /\ last.op = "decrypter_finalize" /\ last.n >= 1
        /\ Len(dec.inp) >= HeaderLen) =>
        LET whole == decrypt(Unwrap(session), dec.inp).res
        IN  /\ ~dec.failed
            /\ last.res.kind = whole.kind
            /\ whole.kind = "Ok" => dec.out = whole.out

\* C5: a finalize called when no chunk was submitted to its direction since
\* construction or since that direction's previous finalize returns the
\* no-context error.
C5_FinalizeRequiresActive ==
    /\ (last.op = "encrypter_finalize" /\ last.n = 0) => last.res = Err(NoEncrypter)
    /\ (last.op = "decrypter_finalize" /\ last.n = 0) => last.res = Err(NoDecrypter)

\* C6: after a finalize, the next encrypt_chunk works on a context made anew
\* from the key and IV that new derived, and returns the same header first;
\* the stream it begins ends with the concatenated output encrypt returns
\* for what that stream carried, and the random source is not asked again.
C6_SessionReuse ==
    (IsSome(session) /\ enc.finalizes >= 1) =>
        LET self == Unwrap(session)
            derived == Pbkdf2Derive(newArgs.iteration_count, newArgs.rand.out,
                                    newArgs.password, Len(self.key) + Len(self.iv))
            fresh == CrypterNew(self.cipher, "Encrypt",
                                SliceTo(derived, self.cipher.key_len),
                                SliceFrom(derived, self.cipher.key_len))
        IN  /\ rand_calls = 1
            /\ (last.op = "encrypt_chunk" /\ last.n = 0) =>
                   /\ self.encrypter = Some(CrypterUpdate(fresh, last.arg).ctx)
                   /\ last.res.kind = "Ok"
                   /\ SliceTo(last.res.out, HeaderLen) = ExpectedHeader
            /\ (last.op = "encrypter_finalize" /\ last.n >= 1 /\ enc.finalizes >= 2) =>
                   /\ last.res.kind = "Ok"
                   /\ SliceTo(enc.out, HeaderLen) = ExpectedHeader
                   /\ encrypt(self, enc.inp).res = Ok(enc.out)

\* a second stream on the session has ended
C6_Witness ==
    /\ IsSome(session)
    /\ last.op = "encrypter_finalize"
    /\ last.n >= 1
    /\ enc.finalizes >= 2
    /\ Len(enc.inp) >= 1
    /\ encrypt(Unwrap(session), enc.inp).res = Ok(enc.out)

\* C7: however the calls of the two directions are interleaved, each
\* direction's context and header flag are those of a session on which the
\* other direction's calls were never made, and each call returns what it
\* returns on that session.
C7_DirectionsIndependent ==
    IsSome(session) =>
        LET self == Unwrap(session)
            e == Unwrap(encOnly.self)
            d == Unwrap(decOnly.self)
        IN  /\ self.encrypter = e.encrypter
            /\ self.add_magic_header = e.add_magic_header
            /\ self.decrypter = d.decrypter
            /\ self.remove_magic_header = d.remove_magic_header
            /\ e.decrypter = None
            /\ d.encrypter = None
            /\ last.op \in EncOps => last.res = encOnly.res
            /\ last.op \in DecOps => last.res = decOnly.res

\* a decrypt-side call made in the middle of an encrypt stream, in the
\* middle of a decrypt stream
C7_Witness ==
    /\ IsSome(session)
    /\ last.op = "decrypt_chunk"
    /\ last.n >= 1
    /\ ~enc.done
    /\ enc.chunks >= 1
    /\ enc.finalizes >= 1
    /\ last.res = decOnly.res

\* C8: new fails and constructs no session when iteration_count is 0, and
\* succeeds for every iteration_count >= 1 when the cipher has an IV length
\* and the random source answers; the count given is the one derived with.
C8_IterationCount ==
    last.op = "new" =>
        /\ newArgs.iteration_count = 0 =>
               /\ last.res.kind = "Err"
               /\ session = None
        /\ (newArgs.iteration_count >= 1 /\ IsSome(newArgs.cipher.iv_len)
               /\ newArgs.rand.kind = "Ok") =>
               /\ last.res.kind = "Ok"
               /\ IsSome(session)
               /\ Unwrap(session).key \o Unwrap(session).iv =
                      Pbkdf2Derive(newArgs.iteration_count, newArgs.rand.out,
                                   newArgs.password,
                                   newArgs.cipher.key_len + Unwrap(newArgs.cipher.iv_len))

\* new was called with a count of 0, a cipher with an IV and a working
\* random source, and has failed on the count
C8_Witness ==
    /\ last.op = "new"
    /\ newArgs.iteration_count = 0
    /\ IsSome(newArgs.cipher.iv_len)
    /\ newArgs.rand.kind = "Ok"
    /\ last.res = Err(NoIterationCount)
    /\ session = None

\* C9: decrypt, and decrypt_chunk on an idle decrypt direction, given fewer
\* than 16 bytes, return an error value and leave the direction idle.
C9_ShortInputIsError ==
    (IsSome(session) /\ Len(last.arg) < HeaderLen
        /\ (last.op = "decrypt" \/ (last.op = "decrypt_chunk" /\ last.idle))) =>
        /\ last.res.kind = "Err"
        /\ Unwrap(session).remove_magic_header

\* C10: decrypt_chunk on an idle decrypt direction rejects a first chunk
\* whose first 8 bytes are not "Salted__" and gives none of its bytes to the
\* cipher context.
C10_TagValidated ==
    (IsSome(session) /\ last.op = "decrypt_chunk" /\ last.idle
        /\ Len(last.arg) >= HeaderLen /\ SliceTo(last.arg, Len(SaltedTag)) # SaltedTag) =>
        /\ last.res.kind = "Err"
        /\ \/ Unwrap(session).decrypter = None
           \/ Unwrap(Unwrap(session).decrypter).buf = <<>>

\* C11: a zero-length chunk is valid in every state: encrypt_chunk and
\* decrypt_chunk of an empty chunk succeed, the direction Idle or Active,
\* and return no bytes but the header an Idle encrypt direction owes, so
\* that the concatenated output of the stream is what it is without it.
C11_ZeroLengthChunkValid ==
    (IsSome(session) /\ last.op \in { "encrypt_chunk", "decrypt_chunk" }
        /\ Len(last.arg) = 0) =>
        /\ last.res.kind = "Ok"
        /\ last.res.out = IF last.op = "encrypt_chunk" /\ last.idle
                          THEN ExpectedHeader ELSE <<>>

\* the other key size of the same mode
Sibling(cipher) == IF cipher = aes_128_cbc THEN aes_256_cbc ELSE aes_128_cbc

\* the session new makes of the same password, iteration count and salt
\* with the other key size
SiblingSession ==
    Unwrap(new(newArgs.password, Sibling(newArgs.cipher),
               newArgs.iteration_count, newArgs.rand).self)

\* C13 as stated: for the same plaintext, password and salt, switching
\* between the 128-bit and the 256-bit variant of the mode changes the
\* length of the derived key and the length of the ciphertext.
C13_KeyAndCiphertextLengthChange ==
    (IsSome(session) /\ newArgs.cipher \in SizedCiphers
        /\ last.op = "encrypt" /\ last.res.kind = "Ok") =>
        /\ Len(SiblingSession.key) # Len(Unwrap(session).key)
        /\ Len(encrypt(SiblingSession, last.arg).res.out) # Len(last.res.out)

\* C13, amended: for the same plaintext, password and salt, switching
\* between the 128-bit and the 256-bit variant of the mode changes the
\* length of the derived key (key_len of the cipher: 16 or 32 bytes) and
\* leaves the length of the ciphertext as it is: both variants have the
\* block size 16, and encrypt returns 16 header bytes and the plaintext
\* padded to the next multiple of the block size.
C13_KeyLengthChangesCiphertextLengthStays ==
    (IsSome(session) /\ newArgs.cipher \in SizedCiphers
        /\ last.op = "encrypt" /\ last.res.kind = "Ok") =>
        LET self == Unwrap(session)
            bs == self.block_size
        IN  /\ Len(self.key) = newArgs.cipher.key_len
            /\ Len(SiblingSession.key) = Sibling(newArgs.cipher).key_len
            /\ Len(SiblingSession.key) # Len(self.key)
            /\ SiblingSession.block_size = bs
            /\ Len(last.res.out) = HeaderLen + bs * ((Len(last.arg) \div bs) + 1)
            /\ Len(encrypt(SiblingSession, last.arg).res.out) = Len(last.res.out)

\* encrypt has returned under the 256-bit key for a plaintext of a block
\* and a byte; the 128-bit key gives other bytes of the same length
C13_Witness ==
    /\ IsSome(session)
    /\ newArgs.cipher = aes_256_cbc
    /\ last.op = "encrypt"
    /\ last.res.kind = "Ok"
    /\ Len(last.arg) > Unwrap(session).block_size
    /\ Len(Unwrap(session).key) = 2 * Len(SiblingSession.key)
    /\ encrypt(SiblingSession, last.arg).res.out # last.res.out
    /\ Len(encrypt(SiblingSession, last.arg).res.out) = Len(last.res.out)

\* C14: from the return of new on, whatever calls are made and whether they
\* succeed or fail, the key, the IV, the 16-byte header, the cipher and the
\* block size of the session are the ones new derived from its arguments
\* and the salt, and the random source has been asked once, for 8 bytes.
C14_KeyMaterialImmutable ==
    /\ session = None => rand_calls <= 1
    /\ IsSome(session) =>
        LET self == Unwrap(session)
            key_length == newArgs.cipher.key_len
            pbkdf2_key_iv ==
                Pbkdf2Derive(newArgs.iteration_count, newArgs.rand.out,
                             newArgs.password,
                             key_length + Unwrap(newArgs.cipher.iv_len))
        IN  /\ self.key = SliceTo(pbkdf2_key_iv, key_length)
            /\ self.iv = SliceFrom(pbkdf2_key_iv, key_length)
            /\ self.magic_header = ExpectedHeader
            /\ Len(self.magic_header) = HeaderLen
            /\ self.cipher = newArgs.cipher
            /\ self.block_size = newArgs.cipher.block_size
            /\ rand_calls = 1
            /\ rand_bytes = SaltLen

\* both streams have been finalized, the decrypt stream with an error, and
\* a one-shot call has followed
C14_Witness ==
    /\ IsSome(session)
    /\ last.op = "decrypt"
    /\ enc.finalizes >= 1
    /\ enc.ended = "Ok"
    /\ dec.finalizes >= 1
    /\ dec.ended = WrongFinalBlockLength
    /\ rand_calls = 1
    /\ Unwrap(session).magic_header = ExpectedHeader

\* C15: when new fails because the cipher has no IV length or because the
\* iteration count is 0, the random source has not been asked.
C15_NoWastedRandomness ==
    (last.op = "new"
        /\ (~IsSome(newArgs.cipher.iv_len) \/ newArgs.iteration_count = 0)) =>
        /\ last.res.kind = "Err"
        /\ last.res.err \in { NoIvLength, NoIterationCount }
        /\ session = None
        /\ rand_calls = 0
        /\ rand_bytes = 0

\* new has failed on a cipher without IV length while the random source
\* would have answered
C15_Witness ==
    /\ last.op = "new"
    /\ ~IsSome(newArgs.cipher.iv_len)
    /\ newArgs.iteration_count >= 1
    /\ newArgs.rand.kind = "Ok"
    /\ last.res = Err(NoIvLength)
    /\ rand_calls = 0

\* how the finalize just before a chunk call returned: with an error
FinalizeFailed(from) ==
    from \in { NoEncrypter, NoDecrypter, WrongFinalBlockLength, BadDecrypt }

\* C16: a finalize that returns an error, for want of a context or because
\* the cipher rejects the data, leaves the header flag of its direction
\* set, and the chunk call that follows on the direction begins a stream:
\* it works on a context created for it, which has been given the bytes of
\* this chunk alone, and it emits, respectively strips, the 16-byte header.
C16_FailedFinalizeEndsStream ==
    IsSome(session) =>
        LET self == Unwrap(session)
            encrypter == CrypterNew(self.cipher, "Encrypt", self.key, self.iv)
            decrypter == CrypterNew(self.cipher, "Decrypt", self.key, self.iv)
        IN  /\ (last.op = "encrypter_finalize" /\ last.res.kind = "Err") =>
                   self.add_magic_header
            /\ (last.op = "decrypter_finalize" /\ last.res.kind = "Err") =>
                   self.remove_magic_header
            /\ (last.op = "encrypt_chunk" /\ FinalizeFailed(last.from)) =>
                   LET u == CrypterUpdate(encrypter, last.arg)
                   IN  /\ last.idle
                       /\ self.encrypter = Some(u.ctx)
                       /\ last.res = Ok(self.magic_header \o u.out)
            /\ (last.op = "decrypt_chunk" /\ FinalizeFailed(last.from)) =>
                   /\ last.idle
                   /\ Len(last.arg) >= HeaderLen =>
                          LET u == CrypterUpdate(decrypter,
                                                 SliceFrom(last.arg, HeaderLen))
                          IN  /\ self.decrypter = Some(u.ctx)
                              /\ last.res = Ok(u.out)
                   /\ Len(last.arg) < HeaderLen => self.decrypter = Some(decrypter)

\* a decrypt stream that held a byte short of a block was finalized and
\* rejected, and the first chunk of the next stream has been taken
C16_Witness ==
    /\ IsSome(session)
    /\ last.op = "decrypt_chunk"
    /\ last.from = WrongFinalBlockLength
    /\ last.idle
    /\ Len(last.arg) > HeaderLen
    /\ last.res.kind = "Ok"
    /\ Unwrap(Unwrap(session).decrypter).buf = SliceFrom(last.arg, HeaderLen)

\* the session as new returned it, before any call was made on it
ConstructedSession ==
    Unwrap(new(newArgs.password, newArgs.cipher, newArgs.iteration_count,
               newArgs.rand).self)

\* C17: encrypt and decrypt leave the contexts and the header flags of both
\* directions as they are: with one-shot calls made anywhere among the
\* calls of the streams, contexts, flags and every chunk and finalize
\* result are those of the streams run without them, and what a one-shot
\* call returns is what it returns on the session as new made it.
C17_OneShotLeavesStreams ==
    IsSome(session) =>
        LET self == Unwrap(session)
            e == Unwrap(encOnly.self)
            d == Unwrap(decOnly.self)
        IN  /\ self.encrypter = e.encrypter
            /\ self.add_magic_header = e.add_magic_header
            /\ self.decrypter = d.decrypter
            /\ self.remove_magic_header = d.remove_magic_header
            /\ last.op \in EncOps => last.res = encOnly.res
            /\ last.op \in DecOps => last.res = decOnly.res
            /\ last.op = "encrypt" =>
                   last.res = encrypt(ConstructedSession, last.arg).res
            /\ last.op = "decrypt" =>
                   last.res = decrypt(ConstructedSession, last.arg).res

\* encrypt has been called in the middle of an encrypt stream and of a
\* decrypt stream
C17_Witness ==
    /\ IsSome(session)
    /\ last.op = "encrypt"
    /\ last.res.kind = "Ok"
    /\ ~enc.done
    /\ enc.chunks >= 1
    /\ ~Unwrap(session).add_magic_header
    /\ ~dec.done
    /\ dec.chunks >= 1
    /\ ~Unwrap(session).remove_magic_header

\* C18: in every state of the session, a direction whose header flag is
\* cleared has its context; encrypt_chunk and decrypt_chunk never return
\* the error of the missing context, which only the finalizes return.
C18_FlagContextConsistent ==
    IsSome(session) =>
        LET self == Unwrap(session)
        IN  /\ ~self.add_magic_header => IsSome(self.encrypter)
            /\ ~self.remove_magic_header => IsSome(self.decrypter)
            /\ last.op = "encrypt_chunk" => last.res # Err(NoEncrypter)
            /\ last.op = "decrypt_chunk" => last.res # Err(NoDecrypter)
            /\ last.res = Err(NoEncrypter) => last.op = "encrypter_finalize"
            /\ last.res = Err(NoDecrypter) => last.op = "decrypter_finalize"

\* both flags are cleared and both contexts present, the decrypt one for
\* the second time, after a finalize that found no context
C18_Witness ==
    /\ IsSome(session)
    /\ last.op = "decrypt_chunk"
    /\ last.from = NoDecrypter
    /\ ~Unwrap(session).add_magic_header
    /\ IsSome(Unwrap(session).encrypter)
    /\ ~Unwrap(session).remove_magic_header
    /\ IsSome(Unwrap(session).decrypter)
====
